---- MODULE Spec2Model ----
(***************************************************************************)
(* JSON-RPC 2.0 / LSP transport of a-h/examplelsp (protocol/rpc.go).       *)
(*                                                                         *)
(* The model follows Transport.Process and what it calls: the framing      *)
(* codec (Read, Write), the two-phase read loop, handleMessage and its two *)
(* branches, the write lock and the counting semaphore.  Every frame the   *)
(* peer sends gets an index k = 1, 2, ... in arrival order; the unit that  *)
(* handles frame k (the read loop itself in phase 1, a goroutine in phase  *)
(* 2) is h[k].  Writer 0 is an application goroutine calling Notify.       *)
(***************************************************************************)
EXTENDS Integers, Sequences, FiniteSets, TLC

\* ------------------------------------------------------------------ bounds
\* Frames the peer sends before it goes silent.
MaxFrames == 3
\* The same in the scenario of the admission gate (requests whose handlers
\* may block).
GateFrames == 5
\* The same in the scenario of the shared writer (responses and a Notify).
WriterFrames == 3
\* The same in the scenario of the id member.
IdFrames == 2
\* Frames the peer sends while handlers hang: the handshake, one request per
\* slot and one more.
HangFrames == 6
\* Frames the peer sends to the server program: the handshake and document
\* updates.
AppFrames == 3
\* Frames the peer sends in the scenario of progress: the handshake and
\* enough requests to fill the gate.
LiveFrames == 5
\* Frames the peer sends to the server program when documents pile up: the
\* handshake, one update that ends the goroutine of the diagnostics, one per
\* place of the channel and one per slot of the gate.
DrainFrames == 16
\* Frames the peer sends to the server program with completion: the
\* handshake, document updates and completion requests.
StoreFrames == 4
\* Frames on the stream of the codec scenario.
MaxStream == 2
\* Bytes of white space a peer may put after the JSON value of a body.
MaxPad == 1
\* Bytes of the JSON value in a peer's body (what matters is how they compare
\* with the declared Content-Length).
PeerBodyLen == 2

\* ------------------------------------------------------- program constants
protocolVersion == "2.0"

concurrencyLimit == 4

\* A nil pointer (*json.RawMessage, *Error) is the empty sequence, a non-nil
\* pointer the one-element sequence of what it points to.
NilPtr == <<>>

Ptr(v) == <<v>>

ErrParseError == [Code |-> -32700, Message |-> "Parse error"]

ErrInvalidRequest == [Code |-> -32600, Message |-> "Invalid Request"]

ErrMethodNotFound == [Code |-> -32601, Message |-> "Method not found"]

ErrInvalidParams == [Code |-> -32602, Message |-> "Invalid params"]

ErrInternal == [Code |-> -32603, Message |-> "Internal error"]

ErrServerNotInitialized == [Code |-> -32002, Message |-> "Server not initialized"]

ErrInvalidContentLengthHeader == "missing or invalid Content-Length header"

\* A Go error interface value: nil, a *Error, or any other error.
NilErr == [type |-> "nil"]

ProtoErr(e) == [type |-> "*Error", val |-> e]

OtherErr(msg) == [type |-> "error", msg |-> msg]

\* -------------------------------------------------------------- the wire
\* The id member of a body: absent, the JSON literal null, or a raw value.
\* A peer numbers its requests: the request in the k-th frame carries the id k
\* ("num" below, see FrameAt).
WireIds == {"absent", "null", "num"}

\* "work" is registered as a request handler only, "changed" as a notification
\* handler only: each is an unregistered method in the other registry.
Methods == {"initialize", "exit", "work", "changed"}

\* A frame as the peer wrote it.  header: a Content-Length header block, a
\* block that does not parse (or end of stream), a block without a numeric
\* Content-Length.  body: a JSON object of the declared length, fewer bytes
\* than declared before the stream closes, bytes that are not JSON.
GoodFrames ==
    [header : {"ok"}, body : {"ok"}, jsonrpc : {protocolVersion},
     id : WireIds, method : Methods]

BadFrames ==
    { [header |-> "malformed", body |-> "ok", jsonrpc |-> protocolVersion, id |-> "num", method |-> "work"],
      [header |-> "nolength", body |-> "ok", jsonrpc |-> protocolVersion, id |-> "num", method |-> "work"],
      [header |-> "ok", body |-> "short", jsonrpc |-> protocolVersion, id |-> "num", method |-> "work"],
      [header |-> "ok", body |-> "notjson", jsonrpc |-> protocolVersion, id |-> "num", method |-> "work"],
      [header |-> "ok", body |-> "ok", jsonrpc |-> "1.0", id |-> "num", method |-> "work"],
      [header |-> "ok", body |-> "ok", jsonrpc |-> "", id |-> "absent", method |-> "changed"] }

Frames == GoodFrames \cup BadFrames

\* The frame f as the k-th frame of the stream.
FrameAt(f, k) == [f EXCEPT !.id = IF @ = "num" THEN ToString(k) ELSE @]

\* Mutant: the literal null is kept raw.
DecodeIDNullKept(id) == IF id = "absent" THEN NilPtr ELSE Ptr(id)

\* encoding/json into ID *json.RawMessage: an absent member leaves the
\* pointer nil, and so does the literal null; any other value is kept raw.
DecodeID(id) == IF id \in {"absent", "null"} THEN NilPtr ELSE Ptr(id)

NoReq == [ProtocolVersion |-> "", ID |-> NilPtr, Method |-> ""]

\* Mutant: any version is accepted as long as the member is there.
IsJSONRPCAnyVersion(r) == r.ProtocolVersion # ""

IsJSONRPC(r) == r.ProtocolVersion = protocolVersion

IsNotification(r) == r.ID = NilPtr

\* Mutant: Read without the protocol-version check.
ReadNoVersionCheck(f) ==
    LET req == [ProtocolVersion |-> f.jsonrpc, ID |-> DecodeID(f.id), Method |-> f.method]
    IN  IF f.header = "malformed"
          THEN [req |-> NoReq, err |-> OtherErr("malformed MIME header")]
        ELSE IF f.header = "nolength"
          THEN [req |-> NoReq, err |-> OtherErr(ErrInvalidContentLengthHeader)]
        ELSE IF f.body = "short"
          THEN [req |-> NoReq, err |-> OtherErr("unexpected EOF")]
        ELSE IF f.body = "notjson"
          THEN [req |-> NoReq, err |-> OtherErr("invalid character")]
        ELSE [req |-> req, err |-> NilErr]

\* Read: the request and the error (NilErr on success).
Read(f) ==
    LET req == [ProtocolVersion |-> f.jsonrpc, ID |-> DecodeID(f.id), Method |-> f.method]
    IN  IF f.header = "malformed"
          THEN [req |-> NoReq, err |-> OtherErr("malformed MIME header")]
        ELSE IF f.header = "nolength"
          THEN [req |-> NoReq, err |-> OtherErr(ErrInvalidContentLengthHeader)]
        ELSE IF f.body = "short"
          THEN [req |-> NoReq, err |-> OtherErr("unexpected EOF")]
        ELSE IF f.body = "notjson"
          THEN [req |-> NoReq, err |-> OtherErr("invalid character")]
        ELSE IF ~IsJSONRPC(req)
          THEN [req |-> req, err |-> ProtoErr(ErrInvalidRequest)]
        ELSE [req |-> req, err |-> NilErr]

\* ------------------------------------------------------------- messages
\* newError as written: a non-nil err yields the nil *Error.  (With a nil
\* err it would go on to call err.Error() on a nil interface; no caller
\* passes nil.)
newError(err) ==
    IF err # NilErr THEN NilPtr
    ELSE IF err.type = "*Error" THEN Ptr(err.val)
    ELSE Ptr([Code |-> 0, Message |-> err.msg])

NewResponse(id, result) ==
    [kind |-> "Response", ProtocolVersion |-> protocolVersion, ID |-> id,
     Result |-> result, Error |-> NilPtr]

\* Mutant: the error Response loses the identifier.
NewResponseErrorNoID(id, err) ==
    [kind |-> "Response", ProtocolVersion |-> protocolVersion, ID |-> NilPtr,
     Result |-> "null", Error |-> newError(err)]

NewResponseError(id, err) ==
    [kind |-> "Response", ProtocolVersion |-> protocolVersion, ID |-> id,
     Result |-> "null", Error |-> newError(err)]

Notification(method, params) ==
    [kind |-> "Notification", ProtocolVersion |-> protocolVersion,
     Method |-> method, Params |-> params]

NoMsg == [kind |-> "none"]

\* What a registered handler can hand back: a result or a failure.  The
\* result "chan" stands for a Go value json.Marshal refuses.
MethodOutcomes ==
    { [result |-> "result", err |-> NilErr],
      [result |-> "chan", err |-> NilErr],
      [result |-> "null", err |-> OtherErr("boom")],
      [result |-> "null", err |-> ProtoErr(ErrInvalidParams)] }

NotificationOutcomes == { NilErr, OtherErr("boom") }

\* Mutant: json.Marshal encodes whatever it is given.
MarshalNeverFails(msg) == FALSE

\* json.Marshal of an outgoing message: fails on a value it cannot encode.
MarshalFails(msg) == msg.kind = "Response" /\ msg.Result = "chan"

\* len(body): the byte count of the encoding of msg.
BodyLen(msg) ==
    IF msg.kind = "Notification" THEN 40 + Len(msg.Method)
    ELSE 30 + (IF msg.ID = NilPtr THEN 4 ELSE Len(msg.ID[1]))
            + Len(msg.Result)
            + (IF msg.Error = NilPtr THEN 4 ELSE 20 + Len(msg.Error[1].Message))

\* ---------------------------------------------------------------- state
VARIABLES
    pc,                    \* where Process is: p1_read, p1_busy, p2_acquire, p2_read, returned
    retErr,                \* the error Process returned
    nread,                 \* frames taken off the input stream so far
    h,                     \* h[k]: the handling of frame k; h[0]: the Notify caller
    sem,                   \* slots taken in the semaphore channel of phase 2
    writeLock,             \* holder of Transport.writeLock, or NoHolder
    wbuf,                  \* bytes held by the bufio.Writer, as chunks
    werr,                  \* the bufio.Writer's sticky error
    out,                   \* what reached the output stream, as chunks
    observed,              \* calls of the error observer t.error, counted by kind
    initialized,           \* Transport.initialized
    methodHandlers,        \* Transport.methodHandlers (its keys)
    notificationHandlers,  \* Transport.notificationHandlers (its keys)
    stream,                \* the framing codec on its own: the frames put on a byte stream
    closed,                \* that stream has been written and closed
    cursor,                \* bytes of it the bufio.Reader has given out
    reads,                 \* the calls of Read on it, in order
    documentUpdates,       \* main.go: the channel of document updates, as versions
    consumer,              \* main.go: the goroutine that ranges over the channel
    fileURIToContents,     \* main.go (with completion): the document the map holds
    storing                \* main.go (with completion): the document being put into the map

\* The variables of the codec scenario (SpecCodec); they stay as Init leaves
\* them while the transport runs.
codec == <<stream, closed, cursor, reads>>

\* The map fileURIToContents of the program with completion.
store == <<fileURIToContents, storing>>

\* The variables of the server program.

app == <<documentUpdates, consumer, store>>

vars ==
    <<pc, retErr, nread, h, sem, writeLock, wbuf, werr, out, observed,
      initialized, methodHandlers, notificationHandlers, codec, app>>

MaxOf(a, b) == IF a > b THEN a ELSE b

MaxUnits ==
    MaxOf(MaxOf(MaxOf(MaxFrames, HangFrames), LiveFrames),
          MaxOf(MaxOf(GateFrames, StoreFrames), MaxOf(WriterFrames, AppFrames)))

\* The units of the run: 0 is the caller of Notify, k from 1 the frame read
\* k-th.  Init makes room for as many as the scenario's peer can send.
Writers == DOMAIN h

FrameIds == DOMAIN h \ {0}

NoHolder == -1

\* pc of a unit: none, dispatched (handleMessage about to run), handler
\* (inside the registered callback), write (a message to send, waiting for
\* the lock), hdr (lock held, header buffered), body (body buffered), done.
\* mode: call (handleMessage called by the loop in phase 1), direct (t.write
\* called by the loop in phase 1), go (goroutine of phase 2), notify;
\* dropped and failed mark a frame the first loop dropped and the frame whose
\* Read failed.  frame is the framing of what the peer wrote; req is what
\* Read decoded from its body; ret is what the registered handler returned.
\* A finished unit keeps what it read, and the error its notification
\* handler returned.
NoFrame == [header |-> "", body |-> "", jsonrpc |-> "", id |-> "", method |-> ""]

\* The bytes of a frame are consumed by Read: what is kept of them is the
\* outcome of the framing and of the version check, and the form the id
\* member had on the wire; the method lives on in the decoded Request only.
Framing(f) == [f EXCEPT !.method = ""]

\* What a handler returned: result, err := mh(req.Params), or err alone for a
\* notification handler; NoRet before it returns and where none is called.
NoRet == [result |-> "", err |-> NilErr]

\* No document: documents are known by the place (from 1) of their frame.
NoDoc == 0

Unit(mode, f, req, res, at) ==
    [pc |-> at, mode |-> mode, frame |-> Framing(f), req |-> req, res |-> res,
     ret |-> NoRet]

Idle == Unit("", NoFrame, NoReq, NoMsg, "none")

\* What the application registered before calling Process (main.go registers
\* "initialize" and a few notifications).
Registrations ==
    { [methods |-> {"initialize", "work"}, notifications |-> {"exit", "changed"}] }

\* An application that registers no handler for "initialize".
HandshakeRegistrations ==
    Registrations \cup
      { [methods |-> {"work"}, notifications |-> {"exit", "changed"}] }

\* New, then the application's HandleMethod / HandleNotification calls.
InitOf(registrations, units) ==
    /\ pc = "p1_read"
    /\ retErr = NilErr
    /\ nread = 0
    /\ h = [k \in 0..units |-> Idle]
    /\ sem = 0
    /\ writeLock = NoHolder
    /\ wbuf = <<>>
    /\ werr = FALSE
    /\ out = <<>>
    /\ observed = [respond |-> 0, notification |-> 0]
    /\ initialized = FALSE
    /\ stream = <<>>
    /\ closed = FALSE
    /\ cursor = 0
    /\ reads = <<>>
    /\ documentUpdates = <<>>
    /\ consumer = "ranging"
    /\ fileURIToContents = NoDoc
    /\ storing = NoDoc
    /\ \E r \in registrations :
         /\ methodHandlers = r.methods
         /\ notificationHandlers = r.notifications

InitWith(registrations) == InitOf(registrations, MaxUnits)

Init == InitWith(Registrations)

InitHandshake == InitWith(HandshakeRegistrations)

\* Mutant: the first loop hands every request to handleMessage instead of
\* rejecting it.
InitStepNoReject(req) ==
    IF IsNotification(req)
      THEN IF req.Method # "exit" THEN "drop" ELSE "call"
      ELSE IF req.Method # "initialize" THEN "call" ELSE "break"

\* Mutant: "exit" ends the first loop as "initialize" does.
InitStepExitBreaks(req) ==
    IF IsNotification(req)
      THEN IF req.Method # "exit" THEN "drop" ELSE "break"
      ELSE IF req.Method # "initialize" THEN "reject" ELSE "break"

\* Mutant: the first loop goes on after the initialize request.
InitStepNeverBreaks(req) ==
    IF IsNotification(req)
      THEN IF req.Method # "exit" THEN "drop" ELSE "call"
      ELSE IF req.Method # "initialize" THEN "reject" ELSE "call"

\* Mutant: the first loop without the check for "exit".
InitStepNoDrop(req) ==
    IF IsNotification(req)
      THEN "call"
      ELSE IF req.Method # "initialize" THEN "reject" ELSE "break"

\* What the first loop does with a request it read: drop it, hand it to
\* handleMessage and go on, answer it with ErrServerNotInitialized, or hand
\* it to handleMessage and break.
InitStep(req) ==
    IF IsNotification(req)
      THEN IF req.Method # "exit" THEN "drop" ELSE "call"
      ELSE IF req.Method # "initialize" THEN "reject" ELSE "break"

\* ------------------------------------------------------- end of a unit
\* Mutant: a goroutine ends without receiving from the channel.
FinishWithNoRelease(k, werror, report, ret) ==
    /\ observed' = IF report = "" THEN observed ELSE [observed EXCEPT ![report] = @ + 1]
    /\ h' = [h EXCEPT ![k] = [@ EXCEPT !.pc = "done", !.res = NoMsg, !.ret = ret]]
    /\ sem' = sem
    /\ pc' = CASE h[k].mode = "call" ->
                    IF InitStep(h[k].req) = "break" THEN "p2_acquire" ELSE "p1_read"
               [] h[k].mode = "direct" ->
                    IF werror # NilErr THEN "returned" ELSE "p1_read"
               [] OTHER -> pc
    /\ retErr' = IF h[k].mode = "direct" /\ werror # NilErr THEN werror ELSE retErr

\* The unit of frame k (or the Notify caller) is finished: werror is the
\* error t.write returned to it (NilErr if none or if it did not write),
\* report the kind of the call of t.error it made ("" if none).  A goroutine
\* then gives its slot back (<-sem); the loop of phase 1 goes on, breaks or
\* returns.  ret is what is kept of the handler's return.
FinishWith(k, werror, report, ret) ==
    /\ observed' = IF report = "" THEN observed ELSE [observed EXCEPT ![report] = @ + 1]
    /\ h' = [h EXCEPT ![k] = [@ EXCEPT !.pc = "done", !.res = NoMsg, !.ret = ret]]
    /\ sem' = IF h[k].mode = "go" THEN sem - 1 ELSE sem
    /\ pc' = CASE h[k].mode = "call" ->
                    IF InitStep(h[k].req) = "break" THEN "p2_acquire" ELSE "p1_read"
               [] h[k].mode = "direct" ->
                    IF werror # NilErr THEN "returned" ELSE "p1_read"
               [] OTHER -> pc
    /\ retErr' = IF h[k].mode = "direct" /\ werror # NilErr THEN werror ELSE retErr

\* The end of a unit that wrote, or had nothing to do: like its Response
\* (res), what the request handler returned is gone with the call.
Finish(k, werror, report) == FinishWith(k, werror, report, NoRet)

\* Mutant: a failed write is not handed to t.error.
WriteReportsNothing(k, werror) == ""

\* What the caller of t.write does with its error: handleRequestResponse
\* hands it to t.error, Process (phase 1) and Notify return it.
WriteReports(k, werror) ==
    IF werror # NilErr /\ h[k].mode \in {"call", "go"} THEN "respond" ELSE ""

\* ------------------------------------------------------- Transport.write
\* Mutant: write without the mutex.
LockFreeAlways == TRUE

LockFree == writeLock = NoHolder

HeaderChunk(k, msg) == [part |-> "header", w |-> k, ContentLength |-> BodyLen(msg)]

BodyChunk(k, msg) == [part |-> "body", w |-> k, msg |-> msg]

WriteFailed == OtherErr("write failed")

\* writeLock.Lock(), json.Marshal, w.WriteString(header).  On a failure the
\* deferred Unlock runs and the error goes back to the caller.
WriteHeader(k) ==
    /\ h[k].pc = "write"
    /\ LockFree
    /\ UNCHANGED <<nread, werr, out, initialized, methodHandlers, notificationHandlers, codec, app>>
    /\ IF MarshalFails(h[k].res)
         THEN /\ Finish(k, OtherErr("json: unsupported type"),
                        WriteReports(k, OtherErr("json: unsupported type")))
              /\ UNCHANGED <<writeLock, wbuf>>
         ELSE IF werr
         THEN /\ Finish(k, WriteFailed, WriteReports(k, WriteFailed))
              /\ UNCHANGED <<writeLock, wbuf>>
         ELSE /\ writeLock' = k
              /\ wbuf' = Append(wbuf, HeaderChunk(k, h[k].res))
              /\ h' = [h EXCEPT ![k].pc = "hdr"]
              /\ UNCHANGED <<pc, retErr, sem, observed>>

\* w.Write(body)
WriteBody(k) ==
    /\ h[k].pc = "hdr"
    /\ UNCHANGED <<nread, werr, out, initialized, methodHandlers, notificationHandlers, codec, app>>
    /\ IF werr
         THEN /\ Finish(k, WriteFailed, WriteReports(k, WriteFailed))
              /\ writeLock' = NoHolder
              /\ UNCHANGED wbuf
         ELSE /\ wbuf' = Append(wbuf, BodyChunk(k, h[k].res))
              /\ h' = [h EXCEPT ![k].pc = "body"]
              /\ UNCHANGED <<pc, retErr, sem, observed, writeLock>>

\* Mutant: Write returns without Flush.
FlushSkipped(k) ==
    /\ h[k].pc = "body"
    /\ ~werr
    /\ writeLock' = NoHolder
    /\ Finish(k, NilErr, "")
    /\ UNCHANGED <<nread, wbuf, werr, out, initialized, methodHandlers, notificationHandlers, codec, app>>

\* w.Flush() hands the buffer to the stream, then the deferred Unlock.
FlushOk(k) ==
    /\ h[k].pc = "body"
    /\ ~werr
    /\ out' = out \o wbuf
    /\ wbuf' = <<>>
    /\ writeLock' = NoHolder
    /\ Finish(k, NilErr, "")
    /\ UNCHANGED <<nread, werr, initialized, methodHandlers, notificationHandlers, codec, app>>

\* Mutant: a failed Flush returns without the Unlock.
FlushFailsLocked(k) ==
    /\ h[k].pc = "body"
    /\ werr' = TRUE
    /\ Finish(k, WriteFailed, WriteReports(k, WriteFailed))
    /\ UNCHANGED <<nread, writeLock, wbuf, out, initialized, methodHandlers, notificationHandlers, codec, app>>

\* w.Flush() fails: the stream took nothing, the buffer keeps its bytes and
\* the bufio.Writer keeps the error for every later call.
FlushFails(k) ==
    /\ h[k].pc = "body"
    /\ werr' = TRUE
    /\ writeLock' = NoHolder
    /\ Finish(k, WriteFailed, WriteReports(k, WriteFailed))
    /\ UNCHANGED <<nread, wbuf, out, initialized, methodHandlers, notificationHandlers, codec, app>>

\* Transport.write as one step.  The mutex is held from before Write to
\* after its Flush, so what Write does in between is seen by nobody else:
\* the specifications that are not about the writer itself take the call as
\* a whole.  streamFails: the stream refuses the bytes at Flush.
write(k, streamFails) ==
    /\ h[k].pc = "write"
    /\ LockFree
    /\ UNCHANGED <<nread, writeLock, initialized, methodHandlers, notificationHandlers, codec, app>>
    /\ IF MarshalFails(h[k].res)
         THEN /\ Finish(k, OtherErr("json: unsupported type"),
                        WriteReports(k, OtherErr("json: unsupported type")))
              /\ UNCHANGED <<wbuf, werr, out>>
         ELSE IF werr
         THEN /\ Finish(k, WriteFailed, WriteReports(k, WriteFailed))
              /\ UNCHANGED <<wbuf, werr, out>>
         ELSE IF streamFails
         THEN /\ wbuf' = wbuf \o <<HeaderChunk(k, h[k].res), BodyChunk(k, h[k].res)>>
              /\ werr' = TRUE
              /\ Finish(k, WriteFailed, WriteReports(k, WriteFailed))
              /\ UNCHANGED out
         ELSE /\ out' = out \o wbuf \o <<HeaderChunk(k, h[k].res), BodyChunk(k, h[k].res)>>
              /\ wbuf' = <<>>
              /\ Finish(k, NilErr, "")
              /\ UNCHANGED werr

\* ------------------------------------------------------ Transport.Notify
\* An application goroutine calls Notify (main.go: the message pusher, the
\* diagnostics publisher).
Notify ==
    /\ h[0].pc = "none"
    /\ h' = [h EXCEPT ![0] = Unit("notify", NoFrame, NoReq,
                                  Notification("window/showMessage", "params"), "write")]
    /\ UNCHANGED <<pc, retErr, nread, sem, writeLock, wbuf, werr, out, observed,
                   initialized, methodHandlers, notificationHandlers, codec, app>>

\* ------------------------------------------------ Transport.handleMessage
\* handleMessage up to the call of the registered handler: classification,
\* then handleNotification or handleRequestResponse with its lookup.
\* Mutant: the handler is called without looking at ok.
LookupNotificationAlways(method) == TRUE

LookupNotification(method) == method \in notificationHandlers

LookupMethod(method) == method \in methodHandlers

handleMessage(k) ==
    /\ h[k].pc = "dispatched"
    /\ UNCHANGED <<nread, writeLock, wbuf, werr, out, initialized,
                   methodHandlers, notificationHandlers, codec, app>>
    /\ LET req == h[k].req
       IN  IF IsNotification(req)
             THEN IF ~LookupNotification(req.Method)
                    THEN Finish(k, NilErr, "")
                    ELSE /\ h' = [h EXCEPT ![k].pc = "handler"]
                         /\ UNCHANGED <<pc, retErr, sem, observed>>
             ELSE /\ UNCHANGED <<pc, retErr, sem, observed>>
                  /\ IF ~LookupMethod(req.Method)
                       THEN h' = [h EXCEPT ![k].pc = "write",
                                           ![k].res = NewResponseError(req.ID, ProtoErr(ErrMethodNotFound))]
                       ELSE h' = [h EXCEPT ![k].pc = "handler"]

\* Mutant: the failure of a notification handler is swallowed.
NotificationReportsNothing(e) == ""

\* err != nil && t.error != nil: New sets t.error and nothing unsets it.
NotificationReports(e) == IF e # NilErr THEN "notification" ELSE ""

\* Mutant: a notification is answered like a request.
handleNotificationAnswered(k, outcomes) ==
    /\ h[k].pc = "handler"
    /\ IsNotification(h[k].req)
    /\ \E e \in outcomes :
         h' = [h EXCEPT ![k].pc = "write",
                        ![k].res = IF e # NilErr
                                     THEN NewResponseError(h[k].req.ID, e)
                                     ELSE NewResponse(h[k].req.ID, "null")]
    /\ UNCHANGED <<pc, retErr, nread, sem, writeLock, wbuf, werr, out, observed,
                   initialized, methodHandlers, notificationHandlers, codec, app>>

\* The notification handler returns; a failure goes to t.error.
handleNotification(k, outcomes) ==
    /\ h[k].pc = "handler"
    /\ IsNotification(h[k].req)
    /\ \E e \in outcomes :
         FinishWith(k, NilErr, NotificationReports(e), [result |-> "", err |-> e])
    /\ UNCHANGED <<nread, writeLock, wbuf, werr, out, initialized,
                   methodHandlers, notificationHandlers, codec, app>>

\* The request handler returns; the Response is built.
handleRequestResponse(k, outcomes) ==
    /\ h[k].pc = "handler"
    /\ ~IsNotification(h[k].req)
    /\ \E o \in outcomes :
         h' = [h EXCEPT ![k].pc = "write",
                        ![k].ret = o,
                        ![k].res = IF o.err # NilErr
                                     THEN NewResponseError(h[k].req.ID, o.err)
                                     ELSE NewResponse(h[k].req.ID, o.result)]
    /\ UNCHANGED <<pc, retErr, nread, sem, writeLock, wbuf, werr, out, observed,
                   initialized, methodHandlers, notificationHandlers, codec, app>>

\* ------------------------------------------------------ Transport.Process
\* Mutant: the initialize request is handed to a goroutine and the loop goes
\* on to the second phase at once.
InitializeSpawned == "p2_acquire"

\* t.handleMessage(req) for the initialize request is a plain call: the loop
\* is inside it until it returns, and breaks then.
InitializeCall == "p1_busy"

\* One turn of the first loop: Read, then return, drop, call or answer.
ProcessInit(frames, max) ==
    /\ pc = "p1_read"
    /\ nread < max
    /\ nread' = nread + 1
    /\ UNCHANGED <<sem, writeLock, wbuf, werr, out, observed,
                   initialized, methodHandlers, notificationHandlers, codec, app>>
    /\ \E f \in frames :
         LET r == Read(FrameAt(f, nread + 1))
             k == nread + 1
             req == r.req
         IN  IF r.err # NilErr
               THEN /\ pc' = "returned"
                    /\ retErr' = r.err
                    /\ h' = [h EXCEPT ![k] = Unit("failed", f, NoReq, NoMsg, "done")]
             ELSE IF InitStep(req) = "drop"
               THEN /\ h' = [h EXCEPT ![k] = Unit("dropped", f, req, NoMsg, "done")]
                    /\ UNCHANGED <<pc, retErr>>
             ELSE IF InitStep(req) = "call"
               THEN /\ h' = [h EXCEPT ![k] = Unit("call", f, req, NoMsg, "dispatched")]
                    /\ pc' = "p1_busy"
                    /\ UNCHANGED retErr
             ELSE IF InitStep(req) = "reject"
               THEN /\ h' = [h EXCEPT ![k] =
                               Unit("direct", f, req,
                                    NewResponseError(req.ID, ProtoErr(ErrServerNotInitialized)),
                                    "write")]
                    /\ pc' = "p1_busy"
                    /\ UNCHANGED retErr
             ELSE /\ h' = [h EXCEPT ![k] = Unit("call", f, req, NoMsg, "dispatched")]
                  /\ pc' = InitializeCall
                  /\ UNCHANGED retErr

\* Mutant: a goroutine per message, without the semaphore.
CanAcquireAlways == TRUE

\* Mutant: the send into the channel never goes through.
CanAcquireNever == FALSE

\* sem <- struct{}{}
CanAcquire == sem < concurrencyLimit

\* Mutant: the loop goes on to Read without sending into the channel.
ProcessAcquireFree ==
    /\ pc = "p2_acquire"
    /\ pc' = "p2_read"
    /\ UNCHANGED <<retErr, nread, h, sem, writeLock, wbuf, werr, out, observed,
                   initialized, methodHandlers, notificationHandlers, codec, app>>

\* The top of the second loop: the send into the channel comes before Read.
ProcessAcquire ==
    /\ pc = "p2_acquire"
    /\ CanAcquire
    /\ sem' = sem + 1
    /\ pc' = "p2_read"
    /\ UNCHANGED <<retErr, nread, h, writeLock, wbuf, werr, out, observed,
                   initialized, methodHandlers, notificationHandlers, codec, app>>

\* Mutant: the loop hands a later frame to a goroutine before the one that
\* arrived first.
ProcessReadOutOfOrder(frames, max) ==
    /\ pc = "p2_read"
    /\ nread + 1 < max
    /\ nread' = nread + 2
    /\ pc' = "p2_acquire"
    /\ UNCHANGED <<retErr, sem, writeLock, wbuf, werr, out, observed,
                   initialized, methodHandlers, notificationHandlers, codec, app>>
    /\ \E f \in frames :
         h' = [h EXCEPT ![nread + 2] =
                 Unit("go", f, Read(FrameAt(f, nread + 2)).req, NoMsg, "dispatched")]

\* Read, then go func(req) { handleMessage(req); <-sem }(req)
ProcessRead(frames, max) ==
    /\ pc = "p2_read"
    /\ nread < max
    /\ nread' = nread + 1
    /\ UNCHANGED <<sem, writeLock, wbuf, werr, out, observed,
                   initialized, methodHandlers, notificationHandlers, codec, app>>
    /\ \E f \in frames :
         LET r == Read(FrameAt(f, nread + 1))
             k == nread + 1
         IN  IF r.err # NilErr
               THEN /\ pc' = "returned"
                    /\ retErr' = r.err
                    /\ h' = [h EXCEPT ![k] = Unit("failed", f, NoReq, NoMsg, "done")]
               ELSE /\ h' = [h EXCEPT ![k] = Unit("go", f, r.req, NoMsg, "dispatched")]
                    /\ pc' = "p2_acquire"
                    /\ UNCHANGED retErr

\* ------------------------------------------------------ specifications
\* A peer that gives every request an id and leaves the id member out of
\* every notification.
PeerFrames == { f \in Frames : f.id # "null" }

\* Any such peer, any handler outcome, a stream that may fail.
Next ==
    \/ ProcessInit(PeerFrames, MaxFrames)
    \/ ProcessAcquire
    \/ ProcessRead(PeerFrames, MaxFrames)
    \/ \E k \in FrameIds : handleMessage(k)
    \/ \E k \in FrameIds : handleNotification(k, NotificationOutcomes)
    \/ \E k \in FrameIds : handleRequestResponse(k, MethodOutcomes)
    \/ \E k \in FrameIds, streamFails \in BOOLEAN : write(k, streamFails)

Spec == Init /\ [][Next]_vars

\* The shared writer: a peer that sends well-formed requests, registered or
\* not, while an application goroutine calls Notify once; the stream may
\* fail.
WriterAlphabet == { f \in GoodFrames : f.id = "num" /\ f.method \in {"initialize", "work", "changed"} }

\* A result, a result json.Marshal refuses, a failure.
WriterOutcomes == { o \in MethodOutcomes : o.err.type # "*Error" }

NextWriter ==
    \/ ProcessInit(WriterAlphabet, WriterFrames)
    \/ ProcessAcquire
    \/ ProcessRead(WriterAlphabet, WriterFrames)
    \/ \E k \in FrameIds : handleMessage(k)
    \/ \E k \in FrameIds : handleRequestResponse(k, WriterOutcomes)
    \/ \E k \in Writers : WriteHeader(k)
    \/ \E k \in Writers : WriteBody(k)
    \/ \E k \in Writers : FlushOk(k)
    \/ \E k \in Writers : FlushFails(k)
    \/ Notify

SpecWriter == Init /\ [][NextWriter]_vars

\* The admission gate under load: a peer that sends well-formed requests and
\* notifications for registered methods, handlers that succeed when (and if)
\* they return, a healthy stream.
GateAlphabet ==
    { f \in GoodFrames :
        \/ f.id = "num" /\ f.method \in {"initialize", "work"}
        \/ f.id = "absent" /\ f.method = "changed" }

NextGate ==
    \/ ProcessInit(GateAlphabet, GateFrames)
    \/ ProcessAcquire
    \/ ProcessRead(GateAlphabet, GateFrames)
    \/ \E k \in FrameIds : handleMessage(k)
    \/ \E k \in FrameIds : handleNotification(k, {NilErr})
    \/ \E k \in FrameIds : handleRequestResponse(k, {[result |-> "result", err |-> NilErr]})
    \/ \E k \in FrameIds : write(k, FALSE)

SpecGate == Init /\ [][NextGate]_vars

\* The id member in all its forms: a peer that also sends the literal null
\* as an id, in a short exchange.
NextIds ==
    \/ ProcessInit(GoodFrames, IdFrames)
    \/ ProcessAcquire
    \/ ProcessRead(GoodFrames, IdFrames)
    \/ \E k \in FrameIds : handleMessage(k)
    \/ \E k \in FrameIds : handleNotification(k, NotificationOutcomes)
    \/ \E k \in FrameIds : handleRequestResponse(k, MethodOutcomes)
    \/ \E k \in FrameIds, streamFails \in BOOLEAN : write(k, streamFails)

SpecIds == Init /\ [][NextIds]_vars

\* The same short exchange with an application that may have registered no
\* handler for "initialize".
SpecHandshake == InitHandshake /\ [][NextIds]_vars

\* Handlers that may never return: a peer that sends the handshake and then
\* requests for a registered method, whose handler returns a result or
\* blocks for good (there is no context and no timeout to end it).
HangHandshake == { f \in GoodFrames : f.id = "num" /\ f.method = "initialize" }

HangAlphabet == { f \in GoodFrames : f.id = "num" /\ f.method = "work" }

\* Mutant: a blocked handler is cancelled and its goroutine ends.
HangCancelled(k) ==
    \/ /\ h[k].pc = "handler"
       /\ h[k].mode = "go"
       /\ h' = [h EXCEPT ![k].pc = "hung"]
       /\ UNCHANGED <<pc, retErr, nread, sem, writeLock, wbuf, werr, out, observed,
                      initialized, methodHandlers, notificationHandlers, codec, app>>
    \/ /\ h[k].pc = "hung"
       /\ Finish(k, NilErr, "")
       /\ UNCHANGED <<nread, writeLock, wbuf, werr, out, initialized,
                      methodHandlers, notificationHandlers, codec, app>>

\* mh(req.Params) in a goroutine of the second loop never returns.
Hang(k) ==
    /\ h[k].pc = "handler"
    /\ h[k].mode = "go"
    /\ h' = [h EXCEPT ![k].pc = "hung"]
    /\ UNCHANGED <<pc, retErr, nread, sem, writeLock, wbuf, werr, out, observed,
                   initialized, methodHandlers, notificationHandlers, codec, app>>

NextHang ==
    \/ ProcessInit(HangHandshake, HangFrames)
    \/ ProcessAcquire
    \/ ProcessRead(HangAlphabet, HangFrames)
    \/ \E k \in FrameIds : handleMessage(k)
    \/ \E k \in FrameIds : handleRequestResponse(k, {[result |-> "result", err |-> NilErr]})
    \/ \E k \in FrameIds : write(k, FALSE)
    \/ \E k \in FrameIds : Hang(k)

SpecHang == Init /\ [][NextHang]_vars

\* ------------------------------------------------------ the server program
\* main.go: the notification handlers of didOpen and didChange put the
\* document they were sent on the channel documentUpdates, and one goroutine
\* takes the documents off the channel and publishes the diagnostics of each
\* with Notify.  "changed" stands for both notifications; a document is
\* known by the place of its frame on the input stream.
documentUpdatesCap == 10

AppHandshake == { f \in GoodFrames : f.id = "num" /\ f.method = "initialize" }

AppAlphabet == { f \in GoodFrames : f.id = "absent" /\ f.method = "changed" }

\* The handler of didOpen / didChange: json.Unmarshal of the params, then
\* the send on the channel, which waits while the channel is full.
\* decodes: the params of the notification are those of a document update.
didChangeOf(k, decodes) ==
    /\ h[k].pc = "handler"
    /\ IsNotification(h[k].req)
    /\ h[k].req.Method = "changed"
    /\ UNCHANGED <<nread, writeLock, wbuf, werr, out, initialized,
                   methodHandlers, notificationHandlers, codec, consumer, store>>
    /\ IF ~decodes
         THEN /\ FinishWith(k, NilErr, NotificationReports(OtherErr("json: cannot unmarshal")),
                            [result |-> "", err |-> OtherErr("json: cannot unmarshal")])
              /\ UNCHANGED documentUpdates
         ELSE /\ Len(documentUpdates) < documentUpdatesCap
              /\ documentUpdates' = Append(documentUpdates, k)
              /\ FinishWith(k, NilErr, "", NoRet)

didChange(k) == \E decodes \in BOOLEAN : didChangeOf(k, decodes)

\* for doc := range documentUpdates: the diagnostics of the document are
\* computed and handed to Notify, whose error is dropped.  For a text whose
\* parse error is on a line that getLineLengths did not count (one without
\* its line feed) lineLengths[line] panics: the deferred recover logs it and
\* the goroutine is over, with the range loop.
publishDiagnostics ==
    /\ consumer = "ranging"
    /\ h[0].pc \in {"none", "done"}
    /\ documentUpdates # <<>>
    /\ documentUpdates' = Tail(documentUpdates)
    /\ UNCHANGED <<pc, retErr, nread, sem, writeLock, wbuf, werr, out, observed,
                   initialized, methodHandlers, notificationHandlers, codec, store>>
    /\ \/ /\ h' = [h EXCEPT ![0] = Unit("notify", NoFrame, NoReq,
                                         Notification("textDocument/publishDiagnostics",
                                                      Head(documentUpdates)), "write")]
          /\ UNCHANGED consumer
       \/ /\ consumer' = "recovered"
          /\ UNCHANGED h

NextApp ==
    \/ ProcessInit(AppHandshake, AppFrames)
    \/ ProcessAcquire
    \/ ProcessRead(AppAlphabet, AppFrames)
    \/ \E k \in FrameIds : handleMessage(k)
    \/ \E k \in FrameIds : handleRequestResponse(k, {[result |-> "result", err |-> NilErr]})
    \/ \E k \in FrameIds : didChange(k)
    \/ publishDiagnostics
    \/ \E k \in Writers, streamFails \in BOOLEAN : write(k, streamFails)

SpecApp == Init /\ [][NextApp]_vars

\* The same program with a peer that goes on sending document updates, one
\* at a time, each with params that decode: Read gets the next frame when
\* the handlers of the frames before it have returned or wait at the send on
\* the full channel.  The stream takes every write.
PeerSends ==
    \A k \in FrameIds :
        (h[k].mode = "go" /\ h[k].pc # "done") =>
            (h[k].pc = "handler" /\ Len(documentUpdates) = documentUpdatesCap)

NextDrain ==
    \/ ProcessInit(AppHandshake, DrainFrames)
    \/ ProcessAcquire
    \/ PeerSends /\ ProcessRead(AppAlphabet, DrainFrames)
    \/ \E k \in FrameIds : handleMessage(k)
    \/ \E k \in FrameIds : handleRequestResponse(k, {[result |-> "result", err |-> NilErr]})
    \/ \E k \in FrameIds : didChangeOf(k, TRUE)
    \/ publishDiagnostics
    \/ \E k \in Writers : write(k, FALSE)

InitDrain == InitOf(Registrations, DrainFrames)

SpecDrain == InitDrain /\ [][NextDrain]_vars

\* ---------------------------------------- the server program with completion
\* main.go (second program): the goroutine that takes the documents off the
\* channel first puts the text into the map fileURIToContents, and the
\* handler of the completion request looks the text up in that map.  The
\* map has no lock.  "work" stands for textDocument/completion; there is one
\* document URI, and a text is known by the place of its frame.
StoreAlphabet ==
    { f \in GoodFrames : \/ f.id = "absent" /\ f.method = "changed"
                         \/ f.id = "num" /\ f.method = "work" }

\* The process is running: the Go runtime has not ended it.
Running == pc # "fatal"

\* for doc := range documentUpdates: the assignment to the map begins.
storeBegin ==
    /\ consumer = "ranging"
    /\ storing = NoDoc
    /\ h[0].pc \in {"none", "done"}
    /\ documentUpdates # <<>>
    /\ documentUpdates' = Tail(documentUpdates)
    /\ storing' = Head(documentUpdates)
    /\ UNCHANGED <<pc, retErr, nread, h, sem, writeLock, wbuf, werr, out, observed,
                   initialized, methodHandlers, notificationHandlers, codec,
                   consumer, fileURIToContents>>

\* The assignment to the map is over; the diagnostics of the document are
\* computed and handed to Notify.
storeEnd ==
    /\ storing # NoDoc
    /\ fileURIToContents' = storing
    /\ storing' = NoDoc
    /\ h' = [h EXCEPT ![0] = Unit("notify", NoFrame, NoReq,
                                  Notification("textDocument/publishDiagnostics", storing),
                                  "write")]
    /\ UNCHANGED <<pc, retErr, nread, sem, writeLock, wbuf, werr, out, observed,
                   initialized, methodHandlers, notificationHandlers, codec,
                   documentUpdates, consumer>>

\* The completion handler: json.Unmarshal of the params, then the read of
\* the map begins.
completionLookup(k) ==
    /\ h[k].pc = "handler"
    /\ ~IsNotification(h[k].req)
    /\ h[k].req.Method = "work"
    /\ h' = [h EXCEPT ![k].pc = "lookup"]
    /\ UNCHANGED <<pc, retErr, nread, sem, writeLock, wbuf, werr, out, observed,
                   initialized, methodHandlers, notificationHandlers, codec, app>>

\* The read of the map is over and the handler returns its items, which
\* handleRequestResponse makes the Response.  A read that overlaps the
\* assignment is a data race: it gets the old text or the new one (the items
\* are not told apart here), or the runtime ends the process with "fatal
\* error: concurrent map read and map write".
completionReturn(k) ==
    /\ h[k].pc = "lookup"
    /\ UNCHANGED <<retErr, nread, sem, writeLock, wbuf, werr, out, observed,
                   initialized, methodHandlers, notificationHandlers, codec, app>>
    /\ \/ /\ h' = [h EXCEPT ![k].pc = "write",
                             ![k].ret = [result |-> "result", err |-> NilErr],
                             ![k].res = NewResponse(h[k].req.ID, "result")]
          /\ UNCHANGED pc
       \/ /\ storing # NoDoc
          /\ pc' = "fatal"
          /\ UNCHANGED h

NextStore ==
    \/ Running /\ ProcessInit(AppHandshake, StoreFrames)
    \/ Running /\ ProcessAcquire
    \/ Running /\ ProcessRead(StoreAlphabet, StoreFrames)
    \/ Running /\ \E k \in FrameIds : handleMessage(k)
    \/ Running /\ \E k \in FrameIds :
                     /\ h[k].req.Method = "initialize"
                     /\ handleRequestResponse(k, {[result |-> "result", err |-> NilErr]})
    \/ Running /\ \E k \in FrameIds : completionLookup(k)
    \/ Running /\ \E k \in FrameIds : completionReturn(k)
    \/ Running /\ \E k \in FrameIds : didChangeOf(k, TRUE)
    \/ Running /\ storeBegin
    \/ Running /\ storeEnd
    \/ Running /\ \E k \in Writers : write(k, FALSE)

SpecStore == Init /\ [][NextStore]_vars

\* ------------------------------------------------------ progress
\* Handlers that return, with a result or with a failure, and a stream that
\* takes every write; the peer sends the handshake and then requests for a
\* registered method, and may stop at any time.  The Go scheduler runs
\* every goroutine that can run: as long as some step of the server can be
\* taken, one is taken in the end.  Nothing is assumed of the steps that wait
\* for the peer.
LiveHandshake == { f \in GoodFrames : f.id = "num" /\ f.method = "initialize" }

LiveAlphabet == { f \in GoodFrames : f.id = "num" /\ f.method = "work" }

LiveOutcomes == { o \in WriterOutcomes : ~MarshalFails(NewResponse(NilPtr, o.result)) }

NextLive ==
    \/ ProcessInit(LiveHandshake, LiveFrames)
    \/ ProcessAcquire
    \/ ProcessRead(LiveAlphabet, LiveFrames)
    \/ \E k \in FrameIds : handleMessage(k)
    \/ \E k \in FrameIds : handleRequestResponse(k, LiveOutcomes)
    \/ \E k \in FrameIds : write(k, FALSE)

\* A step of the server: all of NextLive but the reads, which wait for the
\* peer.
ServerStep ==
    \/ ProcessAcquire
    \/ \E k \in FrameIds : handleMessage(k)
    \/ \E k \in FrameIds : handleRequestResponse(k, LiveOutcomes)
    \/ \E k \in FrameIds : write(k, FALSE)

Fairness == WF_vars(ServerStep)

SpecLive == Init /\ [][NextLive]_vars /\ Fairness

\* ------------------------------------------------------ the framing codec
\* The codec on its own: frames are put on a byte stream, by a peer or by
\* Write, the stream is closed, and Read is called on it until it fails, as
\* the loops of Process do.  A frame is its header block (one unit of the
\* stream: ReadMIMEHeader takes it line by line, up to the empty line), the
\* len bytes of the JSON value of its body and pad bytes of white space
\* after the value.  doc is the JSON value, by member; msg is the message
\* Write was given (NoMsg for what a peer wrote).
transport ==
    <<pc, retErr, nread, h, sem, writeLock, wbuf, werr, out, observed,
      initialized, methodHandlers, notificationHandlers>>

\* json.Marshal of a Response or Notification: every field of the struct
\* becomes a member, a nil pointer the literal null.
Marshal(msg) ==
    IF msg.kind = "Response"
      THEN [jsonrpc |-> msg.ProtocolVersion,
            id |-> IF msg.ID = NilPtr THEN "null" ELSE msg.ID[1],
            method |-> "", result |-> msg.Result, error |-> msg.Error]
      ELSE [jsonrpc |-> msg.ProtocolVersion, id |-> "absent",
            method |-> msg.Method, result |-> "absent", error |-> NilPtr]

\* What a peer puts into a body: a request and a notification.
PeerDocs ==
    { [jsonrpc |-> protocolVersion, id |-> "7", method |-> "work", result |-> "absent", error |-> NilPtr],
      [jsonrpc |-> protocolVersion, id |-> "absent", method |-> "changed", result |-> "absent", error |-> NilPtr] }

\* The frames of a peer: the Content-Length it declares may be the length of
\* the JSON value, less, or more (with or without white space to cover the
\* difference); or the header has no Content-Length field.
PeerStreamFrames ==
    [header : {"ok"}, ContentLength : (PeerBodyLen - 1)..(PeerBodyLen + MaxPad + 1),
     len : {PeerBodyLen}, pad : 0..MaxPad, doc : PeerDocs, msg : {NoMsg}]
    \cup
    [header : {"nolength"}, ContentLength : {0}, len : {PeerBodyLen}, pad : {0},
     doc : PeerDocs, msg : {NoMsg}]

\* The Responses given to Write in the codec scenario.
CodecResponses ==
    { NewResponse(id, result) : id \in {NilPtr, Ptr("7")}, result \in {"result", "null"} }
    \cup { NewResponseError(id, ProtoErr(ErrInternal)) : id \in {NilPtr, Ptr("7")} }

\* Write(w, msg): the header with len(body), the body, Flush.
Write(msg) ==
    [header |-> "ok", ContentLength |-> BodyLen(msg), len |-> BodyLen(msg), pad |-> 0,
     doc |-> Marshal(msg), msg |-> msg]

FrameBytes(F) == 1 + F.len + F.pad

\* Where the i-th frame of the stream starts, and where the stream ends.
RECURSIVE Start(_, _)
Start(s, i) == IF i = 1 THEN 0 ELSE Start(s, i - 1) + FrameBytes(s[i - 1])

Total(s) == Start(s, Len(s) + 1)

\* io.LimitReader(r, contentLength) on a stream that still holds avail
\* bytes: what the decoder can get.
Limit(contentLength, avail) == IF contentLength < avail THEN contentLength ELSE avail

\* What Read makes of the frame F when the decoder got the whole JSON value
\* (complete) or ran into the limit or the end of the stream before.
Wire(F, complete) ==
    [header |-> F.header, body |-> IF complete THEN "ok" ELSE "short",
     jsonrpc |-> F.doc.jsonrpc, id |-> F.doc.id, method |-> F.doc.method]

ReadRecord(at, contentLength, n, r) ==
    [at |-> at, ContentLength |-> contentLength, n |-> n, req |-> r.req, err |-> r.err]

\* A peer writes a frame.
PeerWrites ==
    /\ ~closed
    /\ Len(stream) < MaxStream
    /\ \E F \in PeerStreamFrames : stream' = Append(stream, F)
    /\ UNCHANGED <<closed, cursor, reads, transport, app>>

\* Write puts a Response on the stream.
CodecWrite ==
    /\ ~closed
    /\ Len(stream) < MaxStream
    /\ \E msg \in CodecResponses : stream' = Append(stream, Write(msg))
    /\ UNCHANGED <<closed, cursor, reads, transport, app>>

CloseStream ==
    /\ ~closed
    /\ closed' = TRUE
    /\ UNCHANGED <<stream, cursor, reads, transport, app>>

\* One call of Read.  At the end of the stream ReadMIMEHeader fails with
\* EOF; amid the bytes of a body it finds a malformed line, or an empty
\* header block, which has no Content-Length; at a frame it
\* takes the header block, and the decoder then takes bytes until the JSON
\* value is complete, in reads as large as the bufio.Reader and the limit
\* allow: at least the value, at most the limit.
CodecRead ==
    /\ closed
    /\ IF reads = <<>> THEN TRUE ELSE reads[Len(reads)].err = NilErr
    /\ UNCHANGED <<stream, closed, transport, app>>
    /\ LET at == { i \in 1..Len(stream) : Start(stream, i) = cursor }
       IN  IF cursor >= Total(stream)
             THEN /\ reads' = Append(reads, ReadRecord(cursor, 0, 0,
                                        [req |-> NoReq, err |-> OtherErr("EOF")]))
                  /\ UNCHANGED cursor
           ELSE IF at = {}
             THEN /\ \E e \in {"malformed MIME header", ErrInvalidContentLengthHeader} :
                        reads' = Append(reads, ReadRecord(cursor, 0, 0,
                                          [req |-> NoReq, err |-> OtherErr(e)]))
                  /\ UNCHANGED cursor
           ELSE LET F == stream[CHOOSE i \in at : TRUE]
                    lim == Limit(F.ContentLength, Total(stream) - (cursor + 1))
                IN  IF F.header # "ok"
                      THEN /\ reads' = Append(reads, ReadRecord(cursor, 0, 0, Read(Wire(F, TRUE))))
                           /\ cursor' = cursor + 1
                    ELSE IF F.len > lim
                      THEN /\ reads' = Append(reads, ReadRecord(cursor, F.ContentLength, lim,
                                                               Read(Wire(F, FALSE))))
                           /\ cursor' = cursor + 1 + lim
                    ELSE \E n \in F.len..lim :
                           /\ reads' = Append(reads, ReadRecord(cursor, F.ContentLength, n,
                                                               Read(Wire(F, TRUE))))
                           /\ cursor' = cursor + 1 + n

NextCodec ==
    \/ PeerWrites
    \/ CodecWrite
    \/ CloseStream
    \/ CodecRead

SpecCodec == Init /\ [][NextCodec]_vars

\* ================================================================ claims
\* The frames read so far, the Requests and the Notifications among them.
ReadFrames == { k \in FrameIds : h[k].pc # "none" }

Requests == { k \in ReadFrames : h[k].mode # "failed" /\ ~IsNotification(h[k].req) }

Notifications == { k \in ReadFrames : h[k].mode # "failed" /\ IsNotification(h[k].req) }

\* Units that are neither unborn nor finished.
Active == { k \in FrameIds : h[k].pc \notin {"none", "done"} }

\* Places of the output stream that hold the body of a Response, and those
\* of the Responses written by the unit of frame k.
Responses == { i \in DOMAIN out : out[i].part = "body" /\ out[i].msg.kind = "Response" }

ResponsesFor(k) == { i \in Responses : out[i].w = k }

\* No initialize request was read before frame k: k belongs to the handshake
\* phase.
BeforeHandshake(k) ==
    \A j \in 1..(k - 1) : ~(h[j].req.Method = "initialize" /\ ~IsNotification(h[j].req))

\* The error object of a Response carries the code of e.
CarriesCode(msg, e) == msg.Error # NilPtr /\ msg.Error[1].Code = e.Code

\* ---------------------------------------------------------------------- C1
\* C1: every Response written, and every Response a unit holds to be written,
\* belongs to a Request that was read and carries exactly the identifier the
\* peer put into that Request (the k-th frame carries the id k).
C1_ResponseCarriesRequestId ==
    /\ \A i \in Responses :
         /\ out[i].w \in Requests
         /\ h[out[i].w].req.ID # NilPtr
         /\ out[i].msg.ID = Ptr(ToString(out[i].w))
    /\ \A k \in FrameIds :
         h[k].res.kind = "Response" =>
           /\ k \in Requests
           /\ h[k].res.ID = Ptr(ToString(k))

\* C1 witness: two Requests were answered in the reverse of their arrival
\* order, one of them with an error Response.
C1_Witness ==
    \E i, j \in Responses :
        /\ i < j
        /\ out[i].w > out[j].w
        /\ out[i].msg.Result # out[j].msg.Result

\* ---------------------------------------------------------------------- C2
\* C2: a Request that handleRequestResponse finds no handler for is answered,
\* unless the stream has failed, with exactly one Response, which carries the
\* method-not-found code -32601 and the request's identifier.
C2_MethodNotFoundAnswered ==
    \A k \in Requests :
        ( /\ h[k].pc = "done"
          /\ h[k].mode \in {"call", "go"}
          /\ h[k].req.Method \notin methodHandlers
          /\ ~werr )
        => /\ Cardinality(ResponsesFor(k)) = 1
           /\ \A i \in ResponsesFor(k) :
                /\ out[i].msg.ID = h[k].req.ID
                /\ CarriesCode(out[i].msg, ErrMethodNotFound)

\* ---------------------------------------------------------------------- C3
\* C3: a Request other than initialize read before the handshake is answered
\* at once by the loop, its handler is not invoked, the loop waits for the
\* write and then reads on in the first phase, and the Response written
\* carries the server-not-initialized code -32002 and the request's
\* identifier.
C3_NotInitializedAnswered ==
    \A k \in Requests :
        (BeforeHandshake(k) /\ h[k].req.Method # "initialize")
        => /\ h[k].pc \in {"write", "hdr", "body", "done"}
           /\ h[k].pc # "done" => pc = "p1_busy"
           /\ (h[k].pc = "done" /\ nread = k /\ ~werr) => pc = "p1_read"
           /\ (h[k].pc = "done" /\ ~werr) =>
                /\ Cardinality(ResponsesFor(k)) = 1
                /\ \A i \in ResponsesFor(k) :
                     /\ out[i].msg.ID = h[k].req.ID
                     /\ CarriesCode(out[i].msg, ErrServerNotInitialized)

\* ---------------------------------------------------------------------- C4
\* The first initialize request read, if any.
InitFrames == { k \in Requests : BeforeHandshake(k) /\ h[k].req.Method = "initialize" }

\* Frames of the handshake phase are handled one at a time by the loop, which
\* waits for each; the only handlers invoked for them are the initialize
\* request handler and the exit notification handler.
HandshakeIsSequential ==
    \A k \in ReadFrames :
        BeforeHandshake(k) =>
          /\ h[k].pc # "done" =>
               /\ pc = "p1_busy"
               /\ nread = k
               /\ \A j \in FrameIds : h[j].pc \in {"none", "done"} \/ j = k
          /\ h[k].pc = "handler" =>
               \/ ~IsNotification(h[k].req) /\ h[k].req.Method = "initialize"
               \/ IsNotification(h[k].req) /\ h[k].req.Method = "exit"

\* C4 as stated: the handshake phase is sequential, and once a frame after
\* the initialize request has been read the Response to the initialize
\* request is on the output stream.
C4_InitializeAnsweredFirst ==
    /\ HandshakeIsSequential
    /\ \A k \in InitFrames : nread > k => ResponsesFor(k) # {}

\* C4 amended: the handshake phase is sequential, and once a frame after the
\* initialize request has been read the handling of the initialize request is
\* over: its Response is on the output stream, or writing it failed and the
\* failure went to the error observer.
C4_InitializeHandledFirst ==
    /\ HandshakeIsSequential
    /\ \A k \in InitFrames :
         nread > k =>
           /\ h[k].pc = "done"
           /\ ResponsesFor(k) # {} \/ observed.respond > 0

\* C4 witness: after some traffic of the handshake phase the initialize
\* request was answered, and a later request runs in its handler.
C4_Witness ==
    \E k \in InitFrames :
        /\ k > 1
        /\ ResponsesFor(k) # {}
        /\ \E j \in Requests : j > k /\ h[j].pc = "handler"

\* ---------------------------------------------------------------------- C5
\* The goroutines of the second loop that have not given their slot back.
InFlight == { k \in Active : h[k].mode = "go" }

\* C5: at most concurrencyLimit units exist at any time; every goroutine in
\* flight holds a slot, the loop holds one more while it reads, and with
\* concurrencyLimit goroutines in flight the loop is stalled on the
\* semaphore.
C5_GateBound ==
    /\ Cardinality(Active) <= concurrencyLimit
    /\ Cardinality(InFlight) <= sem
    /\ sem <= concurrencyLimit
    /\ pc = "p2_read" => Cardinality(InFlight) < sem
    /\ Cardinality(InFlight) = concurrencyLimit => (pc = "p2_acquire" /\ ~ENABLED ProcessAcquire)

\* C5 witness: concurrencyLimit goroutines are inside their handlers at once.
C5_Witness ==
    Cardinality({ k \in InFlight : h[k].pc = "handler" }) = concurrencyLimit

\* ---------------------------------------------------------------------- C6
\* The callers inside Write, between Lock and Unlock.
InWrite == { k \in Writers : h[k].pc \in {"hdr", "body"} }

\* The sequence s is made of complete frames: a header, then the body it
\* declares, both of the same writer.
CompleteFrames(s) ==
    /\ Len(s) % 2 = 0
    /\ \A i \in DOMAIN s :
         IF i % 2 = 1
           THEN /\ s[i].part = "header"
                /\ s[i + 1].part = "body"
                /\ s[i + 1].w = s[i].w
                /\ s[i].ContentLength = BodyLen(s[i + 1].msg)
           ELSE s[i].part = "body"

\* C6: at most one caller is inside Write, it is the holder of the lock, the
\* buffer holds only bytes of its frame, and the output stream is a sequence
\* of complete frames.
C6_FramesNeverInterleave ==
    /\ Cardinality(InWrite) <= 1
    /\ \A k \in InWrite : writeLock = k
    /\ (InWrite = {} /\ ~werr) => wbuf = <<>>
    /\ \A i \in DOMAIN wbuf : wbuf[i].w \in InWrite \/ werr
    /\ CompleteFrames(out)

\* C6 witness: a Notification and a Response are on the output stream, and
\* one goroutine holds the lock while another waits for it.
C6_Witness ==
    /\ \E i, j \in DOMAIN out :
         /\ out[i].part = "body" /\ out[i].msg.kind = "Notification"
         /\ out[j].part = "body" /\ out[j].msg.kind = "Response"
    /\ \E k, j \in FrameIds : h[k].pc = "hdr" /\ h[j].pc = "write"

\* ---------------------------------------------------------------------- C7
\* C7: a Notification whose method has no notification handler never gets
\* inside a handler, builds no message and puts nothing into the write buffer
\* or onto the output stream, in the first loop and in the second.
C7_UnregisteredNotificationSilent ==
    \A k \in Notifications :
        h[k].req.Method \notin notificationHandlers =>
          /\ h[k].pc \in {"dispatched", "done"}
          /\ h[k].res = NoMsg
          /\ \A i \in DOMAIN out : out[i].w # k
          /\ \A i \in DOMAIN wbuf : wbuf[i].w # k

\* C7 witness: one such Notification was dropped by the first loop and one
\* went through handleNotification in a goroutine, which has finished.
C7_Witness ==
    \E j, k \in Notifications :
        /\ h[j].req.Method \notin notificationHandlers
        /\ h[k].req.Method \notin notificationHandlers
        /\ h[j].mode = "dropped"
        /\ h[k].mode = "go"
        /\ h[k].pc = "done"

\* ---------------------------------------------------------------------- C8
\* C8: of the Notifications read before the handshake, every one whose
\* method is not "exit" is dropped by the loop, registered or not: it reaches
\* no handler and nothing is written for it.  An "exit" Notification is
\* handed to handleNotification while the loop waits, and the loop then reads
\* on in the first phase.
C8_EarlyNotifications ==
    \A k \in Notifications :
        BeforeHandshake(k) =>
          IF h[k].req.Method # "exit"
            THEN /\ h[k].mode = "dropped"
                 /\ h[k].pc = "done"
                 /\ h[k].res = NoMsg
                 /\ \A i \in DOMAIN out : out[i].w # k
            ELSE /\ h[k].mode = "call"
                 /\ h[k].pc \in {"dispatched", "handler", "done"}
                 /\ h[k].pc # "done" => pc = "p1_busy"
                 /\ (h[k].pc = "done" /\ nread = k) => pc = "p1_read"

\* C8 witness: a Notification with a registered handler was dropped, and a
\* later "exit" Notification is inside its handler, before any initialize.
C8_Witness ==
    \E j, k \in Notifications :
        /\ j < k
        /\ BeforeHandshake(k)
        /\ h[j].req.Method \in notificationHandlers
        /\ h[j].mode = "dropped"
        /\ h[k].req.Method = "exit"
        /\ h[k].pc = "handler"

\* ---------------------------------------------------------------------- C9
\* The frame is one Read must refuse.
Malformed(f) == f.header # "ok" \/ f.body # "ok" \/ f.jsonrpc # protocolVersion

\* C9: when a malformed frame has been read, in either loop, Process has
\* returned the error of that Read, the frame was handed to nobody, it is the
\* last frame read and no unit was created for a later frame.
C9_ReadFailureStops ==
    \A k \in ReadFrames :
        Malformed(h[k].frame) =>
          /\ h[k].mode = "failed"
          /\ pc = "returned"
          /\ retErr # NilErr
          /\ retErr = Read(h[k].frame).err
          /\ nread = k
          /\ \A j \in FrameIds : j > k => h[j].pc = "none"

\* C9 witness: the second loop returned on a protocol-version mismatch while
\* a goroutine was still at work.
C9_Witness ==
    \E k \in ReadFrames :
        /\ h[k].mode = "failed"
        /\ h[k].frame.jsonrpc # protocolVersion
        /\ retErr = ProtoErr(ErrInvalidRequest)
        /\ InFlight # {}

\* --------------------------------------------------------------------- C10
\* Requests whose unit has finished without a Response on the output stream:
\* the write of the Response failed.
Unanswered(modes) ==
    { k \in Requests : h[k].pc = "done" /\ h[k].mode \in modes /\ ResponsesFor(k) = {} }

ExpectedError(err) ==
    IF err.type = "*Error" THEN Ptr(err.val)
    ELSE Ptr([Code |-> 0, Message |-> err.msg])

\* Units that hold a Response for t.write.
Writing == { k \in Requests : h[k].res.kind = "Response" }

\* C11: when a registered request handler returned a failure, the Response
\* handed to t.write carries the request's identifier and the error object
\* derived from the failure: the protocol Error itself, or code 0 with the
\* failure's message.
C11_HandlerFailureMapped ==
    \A k \in Writing :
        h[k].ret.err # NilErr =>
          /\ h[k].res.ID = h[k].req.ID
          /\ h[k].res.Error = ExpectedError(h[k].ret.err)

\* --------------------------------------------------------------------- C12
\* The Response of unit k reports a failure: server-not-initialized,
\* method-not-found or a failure of the handler.
IsFailure(k) ==
    \/ h[k].mode = "direct"
    \/ h[k].req.Method \notin methodHandlers
    \/ h[k].ret.err # NilErr

\* C12: a Response handed to t.write after a success carries the handler's
\* result and no error; one that reports a failure carries an error object
\* and no result; no Response on the output stream has both, and the
\* Responses written for rejected and unroutable Requests have an error
\* object.
C12_ResultXorError ==
    /\ \A k \in Writing :
         IF IsFailure(k)
           THEN h[k].res.Error # NilPtr /\ h[k].res.Result = "null"
           ELSE h[k].res.Error = NilPtr /\ h[k].res.Result = h[k].ret.result
    /\ \A i \in Responses :
         /\ out[i].msg.Error = NilPtr \/ out[i].msg.Result = "null"
         /\ ( \/ h[out[i].w].mode = "direct"
              \/ h[out[i].w].req.Method \notin methodHandlers )
            => out[i].msg.Error # NilPtr

\* --------------------------------------------------------------------- C13
\* Notifications whose registered handler returned a failure.
FailedNotifications == { k \in Notifications : h[k].ret.err # NilErr }

\* C13: every failure of a notification handler was handed to the error
\* observer, once; nothing was built or written for that Notification; the
\* failure is not what Process returns, the first loop reads on after it,
\* and a finished goroutine holds no slot of the gate (the slots taken are
\* those of the goroutines in flight, and one more from the moment the loop
\* has acquired until the goroutine for the frame it reads exists).
C13_NotificationFailureObserved ==
    /\ observed.notification = Cardinality(FailedNotifications)
    /\ \A k \in FailedNotifications :
         /\ h[k].pc = "done"
         /\ h[k].res = NoMsg
         /\ \A i \in DOMAIN out : out[i].w # k
         /\ \A i \in DOMAIN wbuf : wbuf[i].w # k
         /\ retErr # h[k].ret.err
         /\ (h[k].mode = "call" /\ nread = k) => pc = "p1_read"
         /\ (h[k].mode = "go" /\ nread = k) => pc \in {"p2_acquire", "p2_read"}
    /\ sem - Cardinality(InFlight) \in {0, 1}
    /\ pc = "p2_acquire" => sem = Cardinality(InFlight)

\* C13 witness: a notification handler failed in a goroutine, the observer
\* was called, the slot is free again and the loop has read a later frame.
C13_Witness ==
    \E k \in FailedNotifications :
        /\ h[k].mode = "go"
        /\ observed.notification > 0
        /\ nread > k
        /\ sem = 0
        /\ pc = "p2_acquire"

\* --------------------------------------------------------------------- C14
\* C14: a message without identifier reaches a handler only through the
\* notification registry and never gets a Response; a message with an
\* identifier reaches a handler only through the request registry.  A
\* Request for a method registered as a notification only is answered with
\* method-not-found, and a Notification for a method registered as a request
\* only is dropped without a trace.
C14_SeparateRegistries ==
    /\ \A k \in Notifications :
         /\ h[k].res = NoMsg
         /\ ResponsesFor(k) = {}
         /\ h[k].pc = "handler" => h[k].req.Method \in notificationHandlers
         /\ h[k].req.Method \in methodHandlers \ notificationHandlers =>
              /\ h[k].pc \in {"dispatched", "done"}
              /\ h[k].ret = NoRet
              /\ \A i \in DOMAIN out : out[i].w # k
    /\ \A k \in Requests :
         /\ h[k].pc = "handler" => h[k].req.Method \in methodHandlers
         /\ ( /\ h[k].req.Method \in notificationHandlers \ methodHandlers
              /\ h[k].mode \in {"call", "go"} ) =>
              /\ h[k].pc \in {"dispatched", "write", "hdr", "body", "done"}
              /\ h[k].ret = NoRet
              /\ h[k].res.kind = "Response" => CarriesCode(h[k].res, ErrMethodNotFound)
              /\ \A i \in ResponsesFor(k) : CarriesCode(out[i].msg, ErrMethodNotFound)
              /\ (h[k].pc = "done" /\ ~werr) => ResponsesFor(k) # {}

\* --------------------------------------------------------------------- C15
\* Frames read whose id member was the literal null.
NullIdFrames == { k \in ReadFrames : h[k].mode # "failed" /\ h[k].frame.id = "null" }

\* C15: a message whose id member is null is a Request with the identifier
\* null: the first loop does not drop it, no notification handler runs for
\* it, and once its handling is over without a failed write a Response with
\* the identifier null is on the output stream.
C15_NullIdIsRequest ==
    \A k \in NullIdFrames :
        /\ ~IsNotification(h[k].req)
        /\ h[k].req.ID = Ptr("null")
        /\ h[k].mode # "dropped"
        /\ (h[k].pc = "done" /\ ~werr /\ observed.respond = 0) =>
             /\ ResponsesFor(k) # {}
             /\ \A i \in ResponsesFor(k) : out[i].msg.ID = Ptr("null")

\* --------------------------------------------------------------------- C16
\* C16: Transport.initialized is false until the first initialize request
\* has been received and answered, and true in every state after that.
C16_InitializedAfterHandshake ==
    /\ (\A k \in InitFrames : h[k].pc # "done") => initialized = FALSE
    /\ (\E k \in InitFrames : h[k].pc = "done") => initialized = TRUE

\* --------------------------------------------------------------------- C17
\* A well-framed JSON body whose jsonrpc member is missing or not "2.0".
WrongVersion(f) == f.header = "ok" /\ f.body = "ok" /\ f.jsonrpc # protocolVersion

\* C17: a message whose protocol version is missing or wrong is refused by
\* Read: it is handed to no handler, nothing is built or written for it, and
\* Process has returned ErrInvalidRequest; every message that was handed on
\* carries the version "2.0".
C17_WrongVersionEndsSession ==
    \A k \in ReadFrames :
        /\ WrongVersion(h[k].frame) =>
             /\ h[k].mode = "failed"
             /\ h[k].pc = "done"
             /\ h[k].req = NoReq
             /\ h[k].res = NoMsg
             /\ h[k].ret = NoRet
             /\ \A i \in DOMAIN out : out[i].w # k
             /\ pc = "returned"
             /\ retErr = ProtoErr(ErrInvalidRequest)
        /\ h[k].mode # "failed" => IsJSONRPC(h[k].req)

\* C17 witness: after some traffic of the handshake phase a Notification
\* without jsonrpc member ended the session.
C17_Witness ==
    \E k \in ReadFrames :
        /\ k > 1
        /\ BeforeHandshake(k)
        /\ h[k].frame.jsonrpc = ""
        /\ h[k].frame.id = "absent"
        /\ h[k].mode = "failed"
        /\ pc = "returned"

\* --------------------------------------------------------------------- C20
\* Every frame read so far was well-formed.
AllWellFormed == \A k \in ReadFrames : ~Malformed(h[k].frame)

\* The "exit" Notifications read.
Exits == { k \in Notifications : h[k].req.Method = "exit" }

\* An "exit" Notification goes through handleMessage to the notification
\* handler registered for it and to nothing else, called by the first loop
\* before the handshake and in a goroutine after it; the loop then goes on in
\* the phase it was in, and only an initialize request takes it to the second
\* phase.
ExitIsRouted ==
    /\ \A k \in Exits :
         /\ h[k].mode = (IF BeforeHandshake(k) THEN "call" ELSE "go")
         /\ h[k].pc \in {"dispatched", "handler", "done"}
         /\ h[k].res = NoMsg
         /\ h[k].pc = "handler" => "exit" \in notificationHandlers
         /\ (h[k].pc = "done" /\ nread = k) =>
              pc \in (IF BeforeHandshake(k) THEN {"p1_read"} ELSE {"p2_acquire", "p2_read"})
    /\ pc \in {"p2_acquire", "p2_read"} => \E k \in InitFrames : h[k].pc = "done"

Aligned(rd) == \E i \in 1..Len(stream) : Start(stream, i) = rd.at

FrameRead(rd) == stream[CHOOSE i \in 1..Len(stream) : Start(stream, i) = rd.at]

\* The body of the frame is as long as its header says.
BodyAsDeclared(F) == F.header = "ok" /\ F.ContentLength = F.len + F.pad

\* C18: Read takes no byte beyond the declared Content-Length, and after a
\* successful Read of a frame whose body is exactly as long as declared the
\* cursor is at the header of the next frame, so that frames written back to
\* back are read as the same sequence of messages.
C18_ReadStopsAtNextHeader ==
    /\ \A j \in 1..Len(reads) : reads[j].n <= reads[j].ContentLength
    /\ \A j \in 1..Len(reads) :
         (/\ reads[j].err = NilErr
          /\ Aligned(reads[j])
          /\ BodyAsDeclared(FrameRead(reads[j])))
         => reads[j].at + 1 + reads[j].n = reads[j].at + FrameBytes(FrameRead(reads[j]))
    /\ \A j \in 1..Len(reads) :
         (j <= Len(stream) /\ \A i \in 1..j : BodyAsDeclared(stream[i]))
         => /\ reads[j].at = Start(stream, j)
            /\ reads[j].err = NilErr
            /\ reads[j].req = Read(Wire(stream[j], TRUE)).req

\* The reads of a frame that Write produced.
ReadBack == { j \in 1..Len(reads) : Aligned(reads[j]) /\ FrameRead(reads[j]).msg # NoMsg }

\* What a decoded value holds of a Response: a member the value does not
\* have is nil.
Decoded(r) ==
    [ID |-> r.ID,
     Result |-> IF "Result" \in DOMAIN r THEN r.Result ELSE "null",
     Error |-> IF "Error" \in DOMAIN r THEN r.Error ELSE NilPtr]

\* C19 as stated: a Response written by Write and read back by Read is equal
\* to the original in identifier, in result-or-error shape and in payload.
C19_RoundTripEqual ==
    \A j \in ReadBack :
        LET msg == FrameRead(reads[j]).msg
        IN  /\ reads[j].err = NilErr
            /\ Decoded(reads[j].req) = [ID |-> msg.ID, Result |-> msg.Result, Error |-> msg.Error]

\* C19, amended: a Response written by Write and read back by Read is a
\* Request equal to the original in protocol version and identifier (a nil
\* identifier is written as null and read back as nil); its method is empty
\* and the result and error members are not decoded.
C19_RoundTripKeepsIdentifier ==
    \A j \in ReadBack :
        LET msg == FrameRead(reads[j]).msg
        IN  /\ reads[j].err = NilErr
            /\ reads[j].req.ProtocolVersion = msg.ProtocolVersion
            /\ reads[j].req.ID = msg.ID
            /\ reads[j].req.Method = ""
            /\ DOMAIN reads[j].req = {"ProtocolVersion", "ID", "Method"}

\* Responses with a nil and with a set identifier, one of them with a
\* result, have been written and read back.
C19_Witness ==
    /\ \E j \in ReadBack : FrameRead(reads[j]).msg.ID = NilPtr
    /\ \E j \in ReadBack :
         /\ FrameRead(reads[j]).msg.ID # NilPtr
         /\ FrameRead(reads[j]).msg.Result = "result"

\* ---------------------------------------------------------------------- C21
\* C21 as stated: the slot of a message is taken after the message was read:
\* the loop holds no slot while it waits for the next frame, and when the
\* gate is saturated it is stalled with a message read and not yet admitted.
C21_SlotTakenAfterRead ==
    /\ pc = "p2_read" => sem = Cardinality(InFlight)
    /\ (pc = "p2_acquire" /\ sem = concurrencyLimit) => nread > Cardinality(ReadFrames)

\* C21, amended: the slot of a message is taken before the message is read:
\* the loop holds one slot while it waits for the next frame, and when the
\* gate is saturated it is stalled on the semaphore before it reads the next
\* message; every message read so far has been handed to its goroutine.
C21_SlotTakenBeforeRead ==
    /\ pc = "p2_read" => sem = Cardinality(InFlight) + 1
    /\ pc = "p2_acquire" =>
         /\ sem = Cardinality(InFlight)
         /\ nread = Cardinality(ReadFrames)
    /\ (pc = "p2_acquire" /\ sem = concurrencyLimit) =>
         /\ ~ENABLED ProcessAcquire
         /\ ~ENABLED ProcessRead(GateAlphabet, GateFrames)

\* C21 witness: the gate is saturated and the loop is at the semaphore,
\* after it waited for a frame with a slot in hand.
C21_Witness ==
    /\ pc = "p2_acquire"
    /\ sem = concurrencyLimit
    /\ Cardinality(InFlight) = concurrencyLimit

\* ---------------------------------------------------------------------- C22
\* The loop has sent into the channel for a message it has not handed to a
\* goroutine: it is in Read, or Read failed and Process returned.
LoopHoldsSlot ==
    \/ pc = "p2_read"
    \/ pc = "returned" /\ ~BeforeHandshake(nread)

\* The goroutines that have finished, by the way they ended.
Finished == { k \in FrameIds : h[k].mode = "go" /\ h[k].pc = "done" }

\* C22: every goroutine gives its slot back exactly once when handleMessage
\* returns, however it ended: the slots taken are those of the goroutines in
\* flight, plus the one the loop holds while it reads.
C22_SlotsAreInFlight ==
    sem = Cardinality(InFlight) + (IF LoopHoldsSlot THEN 1 ELSE 0)

\* C22 witness: two goroutines have ended, one for a request with no
\* registered handler, after a write failed and was handed to the observer,
\* and all slots are free again.
C22_Witness ==
    /\ pc = "p2_acquire"
    /\ sem = 0
    /\ Cardinality(Finished) >= 2
    /\ observed.respond > 0
    /\ \E k \in Finished : ~IsNotification(h[k].req) /\ ~LookupMethod(h[k].req.Method)

\* ---------------------------------------------------------------------- C23
\* The goroutines whose handler never returns.
Hung == { k \in FrameIds : h[k].pc = "hung" }

\* C23: a handler that never returns keeps its slot for good, and once
\* concurrencyLimit handlers hang the loop stays on the semaphore: nothing
\* more is read and nothing more is dispatched.
C23_HungHandlersStallTheLoop ==
    /\ [](/\ Cardinality(Hung) <= sem
          /\ Cardinality(Hung) = concurrencyLimit =>
               /\ pc = "p2_acquire"
               /\ ~ENABLED ProcessAcquire
               /\ ~ENABLED ProcessRead(HangAlphabet, HangFrames))
    /\ [][/\ \A k \in FrameIds : h[k].pc = "hung" => h'[k].pc = "hung"
          /\ Cardinality(Hung) = concurrencyLimit =>
               /\ pc' = pc
               /\ nread' = nread
               /\ sem' = sem
               /\ \A k \in FrameIds : h[k].pc = "none" => h'[k].pc = "none"]_vars

\* C23 witness: concurrencyLimit handlers hang while the peer has more to
\* send.
C23_Witness ==
    /\ Cardinality(Hung) = concurrencyLimit
    /\ nread < HangFrames

\* ---------------------------------------------------------------------- C24
\* C24: the frames are read one after the other as they arrived, and the
\* goroutine of a frame is spawned when the frame is read: the frames that
\* have a unit are the first nread frames of the stream, and a unit comes
\* into being only for the next frame, never for one behind a frame that has
\* none yet.
C24_DispatchedInArrivalOrder ==
    /\ [](ReadFrames = 1..nread)
    /\ [][/\ nread' \in {nread, nread + 1}
          /\ \A k \in FrameIds :
               (h[k].pc = "none" /\ h'[k].pc # "none") => (k = nread + 1 /\ nread' = k)]_vars

\* C24 witness: of two goroutines the later one has finished while the
\* earlier one is still inside its handler.
C24_Witness ==
    \E j, k \in InFlight \cup Finished :
        /\ j < k
        /\ h[j].pc = "handler"
        /\ h[k].pc = "done"

\* ---------------------------------------------------------------------- C25
\* The requests of the steady state: those read after the initialize request
\* of the handshake.
SteadyRequests == { k \in Requests : ~BeforeHandshake(k) }

\* C25: the Response to the initialize request of the handshake comes before
\* every Response to a request of the steady state; among the latter the
\* order is free (the witness).
C25_InitializeResponseFirst ==
    \A i, j \in Responses :
        (out[i].w \in InitFrames /\ out[j].w \in SteadyRequests) => i < j

\* C25 witness: after the Response to the initialize request, the Response to
\* a later request was written before the Response to an earlier one.
C25_Witness ==
    \E i, j \in Responses :
        /\ i < j
        /\ out[i].w \in SteadyRequests
        /\ out[j].w \in SteadyRequests
        /\ out[i].w > out[j].w
        /\ \E n \in Responses : n < i /\ out[n].w \in InitFrames

\* ---------------------------------------------------------------------- C26
\* C26: a successful Read has taken exactly Content-Length bytes after the
\* header, whatever the length of the JSON value in them, and the call of
\* Read after it starts at a header or at the end of the stream.
C26_ReadTakesDeclaredLength ==
    \A j \in 1..Len(reads) :
        reads[j].err = NilErr =>
          /\ reads[j].n = reads[j].ContentLength
          /\ j < Len(reads) =>
               \/ Aligned(reads[j + 1])
               \/ reads[j + 1].at = Total(stream)

\* ---------------------------------------------------------------------- C27
\* The frames on the output stream have the shape header, body, with the
\* length of the body in the header; what the buffer holds belongs to the
\* caller inside Write.
FramesWellShaped ==
    /\ CompleteFrames(out)
    /\ \A i \in DOMAIN wbuf : ~werr => wbuf[i].w = writeLock

\* C27 as stated: the frames are well shaped, and whenever the lock is free,
\* so that the next writer may start, the buffer is empty.
C27_NothingBufferedAtUnlock ==
    /\ FramesWellShaped
    /\ writeLock = NoHolder => wbuf = <<>>

\* C27, amended: the frames are well shaped, and the buffer is empty whenever
\* the lock is free and no write has failed; once a Flush has failed the
\* bytes of its frame stay in the buffer for good and nothing more reaches
\* the stream.
C27_FlushedBeforeUnlock ==
    /\ [](/\ FramesWellShaped
          /\ (writeLock = NoHolder /\ ~werr) => wbuf = <<>>
          /\ werr => wbuf # <<>>)
    /\ [][werr => (werr' /\ out' = out /\ wbuf' = wbuf)]_vars

\* C27 witness: a frame has been flushed, its writer has released the lock,
\* and the next writer has put its header into the buffer.
C27_Witness ==
    /\ Len(out) >= 2
    /\ ~werr
    /\ \E k \in Writers :
         /\ h[k].pc = "hdr"
         /\ writeLock = k
         /\ wbuf = <<HeaderChunk(k, h[k].res)>>
         /\ out[Len(out)].w # k

\* ---------------------------------------------------------------------- C28
\* C28: an initialize request read after the handshake never gets inside the
\* initialize handler.
C28_InitializeHandledOnce ==
    \A k \in SteadyRequests :
        h[k].req.Method = "initialize" => h[k].pc # "handler"

\* ---------------------------------------------------------------------- C29
\* The diagnostics published so far: the places of the output stream that
\* hold a publishDiagnostics notification.
Published ==
    { i \in DOMAIN out : out[i].part = "body" /\ out[i].msg.kind = "Notification" }

\* C29: document updates are enqueued in the order of their frames on the
\* input stream, and their diagnostics are published in that order.
C29_UpdatesInArrivalOrder ==
    /\ \A i, j \in DOMAIN documentUpdates :
         i < j => documentUpdates[i] < documentUpdates[j]
    /\ \A i, j \in Published :
         i < j => out[i].msg.Params < out[j].msg.Params

\* ---------------------------------------------------------------------- C30
\* Every call of t.write so far has succeeded.
WritesSucceeded == observed.respond = 0 /\ ~werr

\* C30: a frame has at most one Response on the output stream, a frame that
\* is not a Request has none, every Response belongs to a Request, and when
\* all writes succeeded a Request whose handling is over has exactly one.
C30_OneResponsePerRequest ==
    /\ \A k \in FrameIds : Cardinality(ResponsesFor(k)) <= 1
    /\ \A k \in FrameIds \ Requests : ResponsesFor(k) = {}
    /\ \A i \in Responses : out[i].w \in Requests
    /\ WritesSucceeded =>
         \A k \in Requests : h[k].pc = "done" => Cardinality(ResponsesFor(k)) = 1

\* C30 witness: with all writes successful, two Requests have been answered,
\* one of them before the handshake, and a Notification has been through its
\* handler.
C30_Witness ==
    /\ WritesSucceeded
    /\ \E j, k \in Requests :
         /\ j < k
         /\ h[j].mode = "direct" /\ h[j].pc = "done"
         /\ h[k].pc = "done"
    /\ \E n \in Notifications :
         /\ h[n].pc = "done"
         /\ LookupNotification(h[n].req.Method)
         /\ h[n].mode \in {"call", "go"}

\* ---------------------------------------------------------------------- C31
\* C31: with handlers that return and writes that succeed, every Request
\* read is answered in the end, and the loop does not stay for ever at the
\* semaphore, or inside the call or the write of the first phase.
C31_EveryRequestAnswered ==
    /\ []<>(\A k \in Requests : ResponsesFor(k) # {})
    /\ (pc = "p2_acquire") ~> (pc = "p2_read")
    /\ (pc = "p1_busy") ~> (pc # "p1_busy")

\* C31 witness: the gate is full, every goroutine has its Response ready and
\* waits to write it, and the loop waits for a slot.
C31_Witness ==
    /\ pc = "p2_acquire"
    /\ Cardinality(InFlight) = concurrencyLimit
    /\ \A k \in InFlight : h[k].pc = "write"

\* ---------------------------------------------------------------------- C32
\* C32: the first initialize request ends the first phase however it is
\* handled: while it is handled the loop is inside the call, and once that
\* is over the loop is in its second phase (or has returned from it after a
\* failed Read) and every later frame goes to a goroutine.
C32_InitializeEndsFirstPhase ==
    \A k \in InitFrames :
        /\ h[k].pc # "done" => pc = "p1_busy"
        /\ h[k].pc = "done" =>
             /\ pc \in {"p2_acquire", "p2_read", "returned"}
             /\ pc = "returned" => (nread > k /\ h[nread].mode = "failed")
             /\ \A j \in ReadFrames : j > k => h[j].mode \in {"go", "failed"}

\* C32 witness: no handler is registered for "initialize", the write of the
\* method-not-found Response failed, and the loop waits for the next frame
\* in its second phase.
C32_Witness ==
    \E k \in InitFrames :
        /\ ~LookupMethod("initialize")
        /\ h[k].pc = "done"
        /\ ResponsesFor(k) = {}
        /\ observed.respond > 0
        /\ pc = "p2_read"

\* ---------------------------------------------------------------------- C33
\* The Response of the unit of frame k holds a result that has no JSON
\* encoding.
Unserialisable(k) == h[k].res.kind = "Response" /\ h[k].res.Result = "chan"

\* The chunks of the unit of frame k in the buffer and on the output stream.
ChunksOf(k) ==
    Cardinality({ i \in DOMAIN wbuf : wbuf[i].w = k })
      + Cardinality({ i \in DOMAIN out : out[i].w = k })

\* C33: a Response that cannot be serialised never gets into Write's header
\* or body step and leaves nothing in the buffer or on the stream; the call
\* of t.write ends with one more call of the error observer and nothing else
\* changed, and a unit, once over, stays so: what is added to the buffer or
\* to the stream is never of a unit that is over.
C33_UnserialisableWritesNothing ==
    /\ [](\A k \in ReadFrames : Unserialisable(k) => (h[k].pc = "write" /\ ChunksOf(k) = 0))
    /\ [][\A k \in ReadFrames :
            /\ (Unserialisable(k) /\ h'[k].pc # h[k].pc) =>
                  /\ h'[k].pc = "done"
                  /\ observed'.respond = observed.respond + 1
                  /\ UNCHANGED <<wbuf, out, werr, writeLock>>
            /\ h[k].pc = "done" => h'[k].pc = "done"]_vars
    /\ [][/\ \A i \in DOMAIN wbuf' : i > Len(wbuf) => h[wbuf'[i].w].pc # "done"
          /\ \A i \in DOMAIN out' : i > Len(out) => h[out'[i].w].pc # "done"]_vars

\* C33 witness: with a healthy stream that has taken other frames, a Request
\* is over without a Response and the error observer has been called.
C33_Witness ==
    /\ ~werr
    /\ out # <<>>
    /\ observed.respond > 0
    /\ \E k \in Requests : h[k].pc = "done" /\ ChunksOf(k) = 0

\* ---------------------------------------------------------------------- C34
\* C34: the write lock is held only by a unit that is inside Write, between
\* its header and its Flush; when the loop itself is that unit it is in its
\* call of phase 1 and not at the gate or at Read; a unit that leaves Write,
\* with or without an error, leaves the lock free; and a unit that waits for
\* the lock has it free or held by a unit that can take its next step.
C34_LockReleasedAfterEveryWrite ==
    /\ [](/\ LockFree \/ writeLock \in InWrite
          /\ (~LockFree /\ h[writeLock].mode \in {"call", "direct"}) => pc = "p1_busy"
          /\ \A k \in Writers : h[k].pc = "write" =>
                \/ ENABLED WriteHeader(k)
                \/ ENABLED (WriteBody(writeLock) \/ FlushOk(writeLock) \/ FlushFails(writeLock)))
    /\ [][\A k \in Writers :
            (h[k].pc \in {"hdr", "body"} /\ h'[k].pc = "done") => writeLock' = NoHolder]_vars

\* C34 witness: a Flush has failed, the lock is free again, a later writer
\* has come back from its failed write and another is about to take the lock.
C34_Witness ==
    /\ werr
    /\ LockFree
    /\ \E j, k \in Writers :
         /\ j # k
         /\ h[j].pc = "done" /\ ChunksOf(j) = 0 /\ h[j].mode = "go"
         /\ h[k].pc = "write"
    /\ observed.respond >= 2

\* ---------------------------------------------------------------------- C35
\* C35: once Process has returned no goroutine of the second loop is still
\* running, and from then on nothing more is put on the output stream.
C35_NothingInFlightAtReturn ==
    /\ [](pc = "returned" => InFlight = {})
    /\ [][pc = "returned" => out' = out]_vars

\* ---------------------------------------------------------------------- C36
\* The handlers of didOpen / didChange that wait at the send on the channel.
Sending ==
    { k \in InFlight : h[k].pc = "handler" /\ h[k].req.Method = "changed" }

\* The loop waits for a slot, every slot is held by a handler that waits at
\* the send on the full channel, and nothing takes documents off it.
StalledByFullQueue ==
    /\ pc = "p2_acquire"
    /\ ~CanAcquire
    /\ InFlight = Sending
    /\ Len(documentUpdates) = documentUpdatesCap
    /\ ~ENABLED publishDiagnostics
    /\ h[0].pc \in {"none", "done"}

\* C36: the read loop is never stalled by a full queue: the handlers that
\* wait at the send always have a goroutine that takes documents off the
\* queue, also after a panic of that goroutine.
C36_ReadLoopNeverStalled == ~StalledByFullQueue

\* ---------------------------------------------------------------------- C37
\* The completion handlers that are reading the map.
Readers == { k \in FrameIds : h[k].pc = "lookup" }

\* C37: while the map is being written nothing reads it, and the process is
\* never ended by the runtime for a concurrent access.
C37_StoreAccessExclusive ==
    /\ storing # NoDoc => Readers = {}
    /\ Running

====
